---- MODULE Spec2Model ----
(***************************************************************************)
(* Model of portfolio-builder (src/main.go): the full-render pipeline      *)
(*   readConfig -> validateConfig -> downloadTemplateFromGitHub ->         *)
(*   os.MkdirAll -> copyAssets -> generatePages -> generateCollections     *)
(* with the untyped YAML configuration as tagged values, the template      *)
(* directory as a set of file names (each with a text that parses or does  *)
(* not), and the output directory as a map from file name to what was      *)
(* rendered into it.                                                       *)
(***************************************************************************)
EXTENDS Naturals, Sequences, FiniteSets, TLC

VARIABLES
    pc,          \* position of main: the call it is about to make, or how it ended
    templateId,  \* the --template flag ("" = full render mode)
    flags,       \* how flag.Parse ended (Unparsed before getArgs)
    config,      \* the Config returned by readConfig (NoConfig before)
    tmplFiles,   \* the .html files under <templateDir>/pages that are on disk now
    fetched,     \* the template downloadTemplateFromGitHub returned: the .html files
                 \* under pages (files) and those whose text is no valid template (bad);
                 \* NoTemplate while it has not returned
    calls,       \* the functions of the pipeline in the order main called them
    returns,     \* the functions of the pipeline in the order they returned to main
    pagesTodo,   \* keys of config.Pages the range loop has not visited yet
    collTodo,    \* keys of config.Collections the range loop has not visited yet
    curColl,     \* the collection whose items are being rendered (NoColl if none)
    itemIdx,     \* 1-based index of the next item of curColl
    out,         \* output directory: file name -> what the last os.Create + Execute left
    writes,      \* every render of this run, in execution order: what was rendered
                 \* (page name, or collection name and item index), into which file
    parses,      \* every template.ParseFiles call of the renderers, in execution order:
                 \* for which page or collection, and how many renders came before it
    handles,     \* output files opened and not closed yet (the deferred f.Close stack)
    assets,      \* what copyAssets left in <outputDir>/assets
    err,         \* the error main reported (NoErr if none)
    exitCode     \* process exit code (Running while main has not ended)

vars == <<pc, templateId, flags, config, tmplFiles, fetched, calls, returns, pagesTodo,
          collTodo, curColl, itemIdx, out, writes, parses, handles, assets, err, exitCode>>

----------------------------------------------------------------------------
(* Bounds of the model *)

\* most collection items a Configuration holds in all (a collection that fails the
\* shape check counts as one item)
MaxItems == 2
\* most template files that can be missing from the downloaded template or malformed
MaxMissing == 1

----------------------------------------------------------------------------
(* Untyped YAML values (interface{}): null | string | number | list | map *)

NullV == [t |-> "null"]
StrV(s) == [t |-> "str", s |-> s]
NumV(n) == [t |-> "num", n |-> n]
ListV(l) == [t |-> "list", l |-> l]
MapV(m) == [t |-> "map", m |-> m]

EmptyMap == [k \in {} |-> NullV]

\* v.(map[string]interface{}) with the comma-ok form
IsMap(v) == v.t = "map"

----------------------------------------------------------------------------
(* Names.  pageName+".html" and collectionName+".html" as a lookup table. *)

PageNames == {"index", "post1"}
CollNames == {"posts", "projects"}

Html(name) ==
    CASE name = "index" -> "index.html"
      [] name = "post1" -> "post1.html"
      [] name = "posts" -> "posts.html"
      [] name = "projects" -> "projects.html"
      [] name = "base" -> "base.html"

TemplateNames == {Html(n) : n \in PageNames \cup CollNames \cup {"base"}}

----------------------------------------------------------------------------
(* Configurations readConfig can return *)

BaseMap == MapV([site |-> StrV("MySite")])
Bases == {NullV, BaseMap}

\* page contexts: not a mapping (null, scalar, list), a mapping, a mapping with a "base" key
PageVals ==
    { NullV, StrV("hello"), ListV(<<StrV("a")>>),
      MapV([title |-> StrV("Hi")]),
      MapV([title |-> StrV("Hi"), base |-> StrV("shadow")]) }

\* collection items: not a mapping, no output_file, output_file not a string, and
\* two renderable ones with the same output_file (the file of page post1), one of
\* them with a "base" key
ItemNoOut == MapV([title |-> StrV("B")])
ItemBadOut == MapV([output_file |-> NumV(7), title |-> StrV("C")])
ItemA == MapV([output_file |-> StrV("post1.html"), title |-> StrV("A")])
ItemB == MapV([output_file |-> StrV("post1.html"), title |-> StrV("B"),
               base |-> StrV("shadow")])
ItemVals == { StrV("x"), ItemNoOut, ItemBadOut, ItemA, ItemB }

SeqsUpTo(S, n) == UNION { [1..k -> S] : k \in 0..n }

\* collection values that pass the shape check of generateCollections
GoodCollVals == { MapV([items |-> ListV(l)]) : l \in SeqsUpTo(ItemVals, MaxItems) }
\* collection values that do not: null, scalar, list, mapping without items,
\* mapping whose items is not a sequence
BadCollVals ==
    { NullV, StrV("oops"), ListV(<<ItemA>>),
      MapV([title |-> StrV("no items")]),
      MapV([items |-> StrV("not a list")]) }

MapsOver(Names, Vals) == UNION { [S -> Vals] : S \in SUBSET Names }

\* size of a collection value: the number of items it holds, a value that fails the
\* shape check counting as one
ItemCount(v) == IF v \in GoodCollVals THEN Len(v.m["items"].l) ELSE 1

RECURSIVE TotalItems(_)
TotalItems(m) ==
    IF DOMAIN m = {} THEN 0
    ELSE LET g == CHOOSE x \in DOMAIN m : TRUE
         IN ItemCount(m[g]) + TotalItems([h \in DOMAIN m \ {g} |-> m[h]])

\* every page map, with at most one plain collection
PageConfigs ==
    { [Base |-> b, Pages |-> p, Collections |-> c] :
        b \in Bases,
        p \in MapsOver(PageNames, PageVals),
        c \in {NullV, MapV([posts |-> MapV([items |-> ListV(<<ItemA>>)])])} }

\* every collection map of at most MaxItems items in all, with one plain page
CollConfigs ==
    { [Base |-> b, Pages |-> p, Collections |-> c] :
        b \in Bases,
        p \in {[post1 |-> MapV([title |-> StrV("Hi")])]},
        c \in {NullV} \cup
              { MapV(m) : m \in { x \in MapsOver(CollNames, GoodCollVals \cup BadCollVals) :
                                    TotalItems(x) <= MaxItems } } }

Configs == PageConfigs \cup CollConfigs

NoConfig == [Base |-> NullV, Pages |-> EmptyMap, Collections |-> NullV]

\* downloadTemplateFromGitHub has not returned a template
NoTemplate == [files |-> {}, bad |-> {}]

\* template directories downloadTemplateFromGitHub can materialize: the whole template,
\* or the template with some files missing, or with some files present whose text
\* text/template cannot parse
TemplateDirs ==
    { d \in [files : SUBSET TemplateNames, bad : SUBSET TemplateNames] :
        /\ d.bad \subseteq d.files
        /\ d.bad = {} \/ d.files = TemplateNames
        /\ Cardinality(TemplateNames \ d.files) + Cardinality(d.bad) <= MaxMissing }

\* what is on disk when downloadTemplateFromGitHub stops on an error: nothing (temp
\* directory, tree request), or the files written before the failing download, with
\* the failing file itself when io.Copy is what failed
PartialDirs == SUBSET TemplateNames

\* how flag.Parse (flag.ExitOnError) ends: the flags are set, or -h / --help prints
\* the usage and exits with 0, or a flag that is not defined or has a bad value
\* prints the usage and exits with 2
Unparsed == "unparsed"
FlagOutcomes == {"ok", "help", "undefined"}

----------------------------------------------------------------------------
NoColl == "-"
NoErr == [op |-> "none", name |-> "-"]
\* exitCode while main is still running
Running == 99

Init ==
    /\ pc = "getArgs"
    /\ templateId \in {"", "0001"}
    /\ flags = Unparsed
    /\ config = NoConfig
    /\ tmplFiles = {}
    /\ fetched = NoTemplate
    /\ calls = << >>
    /\ returns = << >>
    /\ pagesTodo = {}
    /\ collTodo = {}
    /\ curColl = NoColl
    /\ itemIdx = 1
    /\ out = EmptyMap
    /\ writes = << >>
    /\ parses = << >>
    /\ handles = << >>
    /\ assets = "none"
    /\ err = NoErr
    /\ exitCode = Running

----------------------------------------------------------------------------
(* Helpers shared by generatePages and generateCollections *)

\* config.Base != nil
BasePresent == config.Base # NullV

\* variant of templateFiles: base.html is left out of the parsed set
templateFiles_ownOnly(name) == <<Html(name)>>

\* the files handed to template.ParseFiles
templateFiles(name) ==
    IF BasePresent THEN <<Html("base"), Html(name)>> ELSE <<Html(name)>>

\* template.ParseFiles succeeds iff every file can be read and its text parses
ParseFiles(files) ==
    \A i \in 1..Len(files) : files[i] \in tmplFiles /\ files[i] \notin fetched.bad

\* variant of mergeData: the "base" entry is set after the loop and always wins
mergeData_baseWins(override) ==
    IF IsMap(override)
    THEN [k \in {"base"} \cup DOMAIN override.m |->
              IF k = "base" THEN config.Base ELSE override.m[k]]
    ELSE [k \in {"base"} |-> config.Base]

\* data := map{"base": config.Base}; for k, v := range pageCtx { data[k] = v }
mergeData(override) ==
    IF IsMap(override)
    THEN [k \in {"base"} \cup DOMAIN override.m |->
              IF k \in DOMAIN override.m THEN override.m[k] ELSE config.Base]
    ELSE [k \in {"base"} |-> config.Base]

\* variant of renderContext: the context is merged under "base" whether or not
\* config.Base is nil
renderContext_alwaysMerge(override) == MapV(mergeData(override))

\* the value handed to ExecuteTemplate / Execute
renderContext(override) ==
    IF BasePresent THEN MapV(mergeData(override)) ELSE override

\* the template that is executed: "base.html" by name, or the first parsed file
entryPoint(name) == IF BasePresent THEN Html("base") ELSE Html(name)

\* what a render leaves in the output file; complete = FALSE when Execute failed
Rendered(name, override, complete) ==
    [parsed |-> templateFiles(name), entry |-> entryPoint(name),
     ctx |-> renderContext(override), complete |-> complete]

\* variant of WriteFile: an existing file is opened without truncation and keeps
\* its content
WriteFile_keepExisting(path, content) ==
    [f \in DOMAIN out \cup {path} |-> IF f \in DOMAIN out THEN out[f] ELSE content]

\* os.Create(path) followed by Execute: the path holds the new render only
WriteFile(path, content) ==
    [f \in DOMAIN out \cup {path} |-> IF f = path THEN content ELSE out[f]]

\* variant of outputFile: every page is written to index.html
outputFile_index(pageName) == Html("index")

\* filepath.Join(outputDir, pageName+".html")
outputFile(pageName) == Html(pageName)

\* the deferred f.Close() calls run when the function returns or panics
deferredClose == << >>

\* log.Fatalf in main after fn returned the error e (or inside fn itself)
Fatal(fn, e) ==
    /\ pc' = "exit"
    /\ exitCode' = 1
    /\ err' = e
    /\ returns' = returns

\* a run-time panic inside fn: deferred calls run, the process exits with 2
Panic(fn, e) ==
    /\ pc' = "exit"
    /\ exitCode' = 2
    /\ err' = e
    /\ returns' = returns

\* main line 53, defer os.RemoveAll(templateDir): runs when main returns and when a
\* panic unwinds main; os.Exit inside log.Fatalf skips it
removeTemplateDir ==
    tmplFiles' = IF pc' = "exit" /\ exitCode' # 1 THEN {} ELSE tmplFiles

renderVars == <<pagesTodo, collTodo, curColl, itemIdx, out, writes, parses, handles>>

----------------------------------------------------------------------------
(* main, up to the renderers *)

\* main lines 37-45: getArgs runs flag.Parse, which can end the process; --template
\* given: fetch config.yml only, then return
getArgs ==
    /\ pc = "getArgs"
    /\ \E parsed \in FlagOutcomes :
         /\ flags' = parsed
         /\ IF parsed = "undefined"
            THEN /\ pc' = "exit"
                 /\ exitCode' = 2
                 /\ err' = [op |-> "flag", name |-> "-"]
                 /\ UNCHANGED <<calls, returns>>
            ELSE IF parsed = "help"
            THEN /\ pc' = "exit"
                 /\ exitCode' = 0
                 /\ UNCHANGED <<calls, returns, err>>
            ELSE IF templateId # ""
            THEN \E ok \in BOOLEAN :
                   /\ calls' = Append(calls, "downloadFile")
                   /\ IF ok
                      THEN /\ pc' = "exit"
                           /\ exitCode' = 0
                           /\ err' = NoErr
                           /\ returns' = Append(returns, "downloadFile")
                      ELSE Fatal("downloadFile", [op |-> "download", name |-> "config.yml"])
            ELSE /\ pc' = "readConfig"
                 /\ UNCHANGED <<calls, returns, err, exitCode>>
    /\ UNCHANGED <<templateId, config, tmplFiles, fetched, assets>>
    /\ UNCHANGED renderVars

\* readConfig: os.ReadFile + yaml.Unmarshal, log.Fatalf on either error
readConfig ==
    /\ pc = "readConfig"
    /\ calls' = Append(calls, "readConfig")
    /\ \/ \E c \in Configs :
            /\ config' = c
            /\ pc' = "validateConfig"
            /\ returns' = Append(returns, "readConfig")
            /\ UNCHANGED <<err, exitCode>>
       \/ /\ Fatal("readConfig", [op |-> "readConfig", name |-> "config.yml"])
          /\ UNCHANGED config
    /\ UNCHANGED <<templateId, flags, tmplFiles, fetched, assets>>
    /\ UNCHANGED renderVars

\* validateConfig: log.Fatalf when the schema cannot be loaded or the config is invalid
validateConfig ==
    /\ pc = "validateConfig"
    /\ calls' = Append(calls, "validateConfig")
    /\ \E valid \in BOOLEAN :
         IF valid
         THEN /\ pc' = "downloadTemplateFromGitHub"
              /\ returns' = Append(returns, "validateConfig")
              /\ UNCHANGED <<err, exitCode>>
         ELSE Fatal("validateConfig", [op |-> "validate", name |-> "schema.json"])
    /\ UNCHANGED <<templateId, flags, config, tmplFiles, fetched, assets>>
    /\ UNCHANGED renderVars

\* downloadTemplateFromGitHub: materializes the template directory; log.Fatalf on any
\* error, which leaves the files written so far on disk
downloadTemplateFromGitHub ==
    /\ pc = "downloadTemplateFromGitHub"
    /\ calls' = Append(calls, "downloadTemplateFromGitHub")
    /\ \/ \E d \in TemplateDirs :
            /\ tmplFiles' = d.files
            /\ fetched' = d
            /\ pc' = "MkdirAll"
            /\ returns' = Append(returns, "downloadTemplateFromGitHub")
            /\ UNCHANGED <<err, exitCode>>
       \/ \E d \in PartialDirs :
            /\ Fatal("downloadTemplateFromGitHub", [op |-> "download", name |-> "template"])
            /\ tmplFiles' = d
            /\ UNCHANGED fetched
    /\ UNCHANGED <<templateId, flags, config, assets>>
    /\ UNCHANGED renderVars

\* variant of MkdirAll: main goes on to generatePages without copying the assets
MkdirAll_skipCopyAssets ==
    /\ pc = "MkdirAll"
    /\ calls' = Append(calls, "MkdirAll")
    /\ pc' = "generatePages"
    /\ returns' = Append(returns, "MkdirAll")
    /\ UNCHANGED <<err, exitCode>>
    /\ UNCHANGED <<templateId, flags, config, tmplFiles, fetched, assets>>
    /\ UNCHANGED renderVars

\* main lines 56-58: os.MkdirAll(outputDir)
MkdirAll ==
    /\ pc = "MkdirAll"
    /\ calls' = Append(calls, "MkdirAll")
    /\ \E ok \in BOOLEAN :
         IF ok
         THEN /\ pc' = "copyAssets"
              /\ returns' = Append(returns, "MkdirAll")
              /\ UNCHANGED <<err, exitCode>>
         ELSE Fatal("MkdirAll", [op |-> "mkdir", name |-> "outputDir"])
    /\ UNCHANGED <<templateId, flags, config, tmplFiles, fetched, assets>>
    /\ UNCHANGED renderVars

\* what copyAssets returns to main for the result of filepath.WalkDir
copyAssetsResult(walkOk) == TRUE

\* copyAssets: skip when <templateDir>/assets is absent, else WalkDir; main's check of
\* the returned error
copyAssets ==
    /\ pc = "copyAssets"
    /\ calls' = Append(calls, "copyAssets")
    /\ \E srcExists \in BOOLEAN, walkOk \in BOOLEAN :
         /\ srcExists \/ walkOk
         /\ assets' = IF ~srcExists THEN "none"
                      ELSE IF walkOk THEN "copied" ELSE "partial"
         /\ IF ~srcExists \/ copyAssetsResult(walkOk)
            THEN /\ pc' = "generatePages"
                 /\ returns' = Append(returns, "copyAssets")
                 /\ UNCHANGED <<err, exitCode>>
            ELSE Fatal("copyAssets", [op |-> "copyAssets", name |-> "assets"])
    /\ UNCHANGED <<templateId, flags, config, tmplFiles, fetched>>
    /\ UNCHANGED renderVars

----------------------------------------------------------------------------
(* generatePages *)

\* main line 66 calls generatePages; `for pageName := range config.Pages` starts
generatePagesEnter ==
    /\ pc = "generatePages"
    /\ calls' = Append(calls, "generatePages")
    /\ pagesTodo' = DOMAIN config.Pages
    /\ pc' = "pagesLoop"
    /\ UNCHANGED <<templateId, flags, config, tmplFiles, fetched, returns, collTodo,
                   curColl, itemIdx, out, writes, parses, handles, assets, err, exitCode>>

\* variant of pageParseError: the page is skipped and the loop goes on (best effort)
pageParseError_skip(pageName) ==
    /\ pagesTodo' = pagesTodo \ {pageName}
    /\ UNCHANGED <<pc, err, exitCode, returns, handles, out, writes>>

\* lines 151-153: ParseFiles failed for pageName: return the error, main log.Fatalf's
pageParseError(pageName) ==
    /\ Fatal("generatePages", [op |-> "parsePage", name |-> pageName])
    /\ handles' = deferredClose
    /\ UNCHANGED <<pagesTodo, out, writes>>

\* one iteration of the range loop, for the key the map iteration yields next
generatePages(pageName) ==
    /\ pc = "pagesLoop"
    /\ pageName \in pagesTodo
    /\ parses' = Append(parses, [kind |-> "page", name |-> pageName,
                                 files |-> templateFiles(pageName), at |-> Len(writes)])
    /\ IF ~ParseFiles(templateFiles(pageName))
       THEN pageParseError(pageName)
       ELSE \E createOk \in BOOLEAN, execOk \in BOOLEAN :
              /\ createOk \/ execOk
              /\ IF ~createOk
                 THEN /\ Fatal("generatePages",
                               [op |-> "createPage", name |-> outputFile(pageName)])
                      /\ handles' = deferredClose
                      /\ UNCHANGED <<pagesTodo, out, writes>>
                 ELSE /\ writes' = Append(writes,
                                  [kind |-> "page", name |-> pageName, idx |-> 0,
                                   file |-> outputFile(pageName),
                                   r |-> Rendered(pageName, config.Pages[pageName], execOk)])
                      /\ out' = WriteFile(outputFile(pageName),
                                          Rendered(pageName, config.Pages[pageName], execOk))
                      /\ IF ~execOk
                         THEN /\ Fatal("generatePages",
                                       [op |-> "executePage", name |-> pageName])
                              /\ handles' = deferredClose
                              /\ UNCHANGED pagesTodo
                         ELSE /\ handles' = Append(handles, outputFile(pageName))
                              /\ pagesTodo' = pagesTodo \ {pageName}
                              /\ UNCHANGED <<pc, err, exitCode, returns>>
    /\ UNCHANGED <<templateId, flags, config, tmplFiles, fetched, calls, collTodo,
                   curColl, itemIdx, assets>>

\* the range loop is over: return nil (the deferred closes run)
generatePagesReturn ==
    /\ pc = "pagesLoop"
    /\ pagesTodo = {}
    /\ handles' = deferredClose
    /\ returns' = Append(returns, "generatePages")
    /\ pc' = "generateCollections"
    /\ UNCHANGED <<templateId, flags, config, tmplFiles, fetched, calls, pagesTodo,
                   collTodo, curColl, itemIdx, out, writes, parses, assets, err, exitCode>>

----------------------------------------------------------------------------
(* generateCollections *)

\* collectionData.(map[string]interface{})["items"].([]interface{}), line 197:
\* the inner assertion has no comma-ok and panics on a value that is not a map
itemsList(collectionData) ==
    IF ~IsMap(collectionData) THEN [res |-> "panic", list |-> << >>]
    ELSE IF "items" \notin DOMAIN collectionData.m THEN [res |-> "skip", list |-> << >>]
    ELSE IF collectionData.m["items"].t # "list" THEN [res |-> "skip", list |-> << >>]
    ELSE [res |-> "ok", list |-> collectionData.m["items"].l]

\* item.(map[string]interface{})["output_file"] then outputFile.(string), lines 221-229:
\* the assertion on item has no comma-ok and panics on an item that is not a map
outputFileName(item) ==
    IF ~IsMap(item) THEN [res |-> "panic", file |-> "-"]
    ELSE IF "output_file" \notin DOMAIN item.m THEN [res |-> "skip", file |-> "-"]
    ELSE IF item.m["output_file"].t # "str" THEN [res |-> "skip", file |-> "-"]
    ELSE [res |-> "ok", file |-> item.m["output_file"].s]

\* the items of the collection being rendered
curItems == itemsList(config.Collections.m[curColl]).list

\* inside `for _, item := range itemsList`
InItems == curColl # NoColl /\ itemIdx <= Len(curItems)

\* main line 71 calls generateCollections; nil check (return nil, and main returns),
\* then the range loop starts
generateCollectionsEnter ==
    /\ pc = "generateCollections"
    /\ calls' = Append(calls, "generateCollections")
    /\ IF config.Collections = NullV
       THEN /\ pc' = "exit"
            /\ exitCode' = 0
            /\ returns' = Append(returns, "generateCollections")
            /\ UNCHANGED collTodo
       ELSE /\ pc' = "collLoop"
            /\ collTodo' = DOMAIN config.Collections.m
            /\ UNCHANGED <<exitCode, returns>>
    /\ removeTemplateDir
    /\ UNCHANGED <<templateId, flags, config, fetched, pagesTodo, curColl, itemIdx,
                   out, writes, parses, handles, assets, err>>

\* the head of one iteration of `for collectionName, collectionData := range`:
\* shape check and ParseFiles, lines 195-217
generateCollections(collectionName) ==
    /\ pc = "collLoop"
    /\ ~InItems
    /\ collectionName \in collTodo
    /\ LET shape == itemsList(config.Collections.m[collectionName]) IN
       /\ parses' = IF shape.res = "ok"
                    THEN Append(parses, [kind |-> "collection", name |-> collectionName,
                                         files |-> templateFiles(collectionName),
                                         at |-> Len(writes)])
                    ELSE parses
       /\ IF shape.res = "panic"
          THEN /\ Panic("generateCollections",
                        [op |-> "panicCollection", name |-> collectionName])
               /\ handles' = deferredClose
               /\ UNCHANGED <<collTodo, curColl, itemIdx>>
          ELSE IF shape.res = "skip"
          THEN /\ collTodo' = collTodo \ {collectionName}
               /\ curColl' = NoColl
               /\ UNCHANGED <<pc, err, exitCode, returns, handles, itemIdx>>
          ELSE IF ~ParseFiles(templateFiles(collectionName))
          THEN /\ Fatal("generateCollections",
                        [op |-> "parseCollection", name |-> collectionName])
               /\ handles' = deferredClose
               /\ UNCHANGED <<collTodo, curColl, itemIdx>>
          ELSE /\ collTodo' = collTodo \ {collectionName}
               /\ curColl' = collectionName
               /\ itemIdx' = 1
               /\ UNCHANGED <<pc, err, exitCode, returns, handles>>
    /\ removeTemplateDir
    /\ UNCHANGED <<templateId, flags, config, fetched, calls, pagesTodo, out, writes, assets>>

\* one iteration of `for _, item := range itemsList`, lines 220-260
generateCollectionItem ==
    /\ pc = "collLoop"
    /\ InItems
    /\ LET item == curItems[itemIdx]
           name == outputFileName(item)
       IN
       IF name.res = "panic"
       THEN /\ Panic("generateCollections", [op |-> "panicItem", name |-> curColl])
            /\ handles' = deferredClose
            /\ UNCHANGED <<itemIdx, out, writes>>
       ELSE IF name.res = "skip"
       THEN /\ itemIdx' = itemIdx + 1
            /\ UNCHANGED <<pc, err, exitCode, returns, handles, out, writes>>
       ELSE \E createOk \in BOOLEAN, execOk \in BOOLEAN :
              /\ createOk \/ execOk
              /\ IF ~createOk
                 THEN /\ Fatal("generateCollections",
                               [op |-> "createItem", name |-> name.file])
                      /\ handles' = deferredClose
                      /\ UNCHANGED <<itemIdx, out, writes>>
                 ELSE /\ writes' = Append(writes,
                                  [kind |-> "item", name |-> curColl, idx |-> itemIdx,
                                   file |-> name.file,
                                   r |-> Rendered(curColl, item, execOk)])
                      /\ out' = WriteFile(name.file, Rendered(curColl, item, execOk))
                      /\ IF ~execOk
                         THEN /\ Fatal("generateCollections",
                                       [op |-> "executeItem", name |-> name.file])
                              /\ handles' = deferredClose
                              /\ UNCHANGED itemIdx
                         ELSE /\ handles' = Append(handles, name.file)
                              /\ itemIdx' = itemIdx + 1
                              /\ UNCHANGED <<pc, err, exitCode, returns>>
    /\ removeTemplateDir
    /\ UNCHANGED <<templateId, flags, config, fetched, calls, pagesTodo, collTodo, curColl,
                   parses, assets>>

\* both loops are over: return nil, main logs success and returns (its deferred
\* os.RemoveAll runs)
generateCollectionsReturn ==
    /\ pc = "collLoop"
    /\ ~InItems
    /\ collTodo = {}
    /\ handles' = deferredClose
    /\ returns' = Append(returns, "generateCollections")
    /\ pc' = "exit"
    /\ exitCode' = 0
    /\ removeTemplateDir
    /\ UNCHANGED <<templateId, flags, config, fetched, calls, pagesTodo, collTodo, curColl,
                   itemIdx, out, writes, parses, assets, err>>

Next ==
    \/ getArgs
    \/ readConfig
    \/ validateConfig
    \/ downloadTemplateFromGitHub
    \/ MkdirAll
    \/ copyAssets
    \/ generatePagesEnter
    \/ \E pageName \in PageNames : generatePages(pageName)
    \/ generatePagesReturn
    \/ generateCollectionsEnter
    \/ \E collectionName \in CollNames : generateCollections(collectionName)
    \/ generateCollectionItem
    \/ generateCollectionsReturn

Spec == Init /\ [][Next]_vars

----------------------------------------------------------------------------
(* Properties *)

\* full render mode: flag.Parse set the flags and --template was not given
FullRender == flags = "ok" /\ templateId = ""

\* the pages declared by the Configuration
Pages == DOMAIN config.Pages

\* the files rendered so far
Written == DOMAIN out

\* template file f was downloaded
Downloaded(f) == f \in fetched.files

\* template file f was downloaded with a text that parses
Usable(f) == f \in fetched.files /\ f \notin fetched.bad

\* generatePages ended the run because ParseFiles failed for a page
PageParseFailed == pc = "exit" /\ err.op = "parsePage"

\* C1 as stated: when a declared page's template file is missing, the run ends with
\* an error naming that page and no output file of any page has been written,
\* whatever order the pages are visited in.
C1_NoPageWritten ==
    (PageParseFailed /\ ~Downloaded(Html(err.name)))
        => \A p \in Pages : outputFile(p) \notin Written

\* C1 amended: generatePages never returns successfully while a template it needs is
\* missing or malformed; when the loop reaches a page whose templates cannot be parsed
\* the run ends with exit code 1 and an error naming that page, the template directory
\* is left as downloaded, nothing has been written for that page or for any page not
\* visited yet, and the pages visited earlier are written.
C1_FailFast ==
    /\ PageParseFailed =>
          /\ exitCode = 1
          /\ err.name \in pagesTodo
          /\ tmplFiles = fetched.files
          /\ \E i \in 1..Len(templateFiles(err.name)) :
                 ~Usable(templateFiles(err.name)[i])
          /\ \A p \in pagesTodo : outputFile(p) \notin Written
          /\ \A p \in Pages \ pagesTodo :
                 outputFile(p) \in Written /\ out[outputFile(p)].complete
    /\ (Len(returns) > 0 /\ returns[Len(returns)] = "generatePages") =>
          \A p \in Pages : Usable(Html(p))

\* C1 witness: the second page visited has no template: the first page is written
C1_Witness ==
    /\ PageParseFailed
    /\ ~Downloaded(Html(err.name))
    /\ Cardinality(Pages) = 2
    /\ Written # {}

----------------------------------------------------------------------------
\* the collections declared by the Configuration
Collections == IF config.Collections = NullV THEN {} ELSE DOMAIN config.Collections.m

\* 'mapping containing an items field that is an ordered sequence'
HasItemsShape(v) == IsMap(v) /\ "items" \in DOMAIN v.m /\ v.m["items"].t = "list"

\* the item contains output_file as a string
HasOutputFile(v) ==
    IsMap(v) /\ "output_file" \in DOMAIN v.m /\ v.m["output_file"].t = "str"

\* the items of collection g (g has the items shape)
ItemsOf(g) == config.Collections.m[g].m["items"].l

\* the renders generateCollections made for collection g
WritesOf(g) == { i \in 1..Len(writes) : writes[i].kind = "item" /\ writes[i].name = g }

\* C2 as stated: a collection whose value lacks the items shape (scalar, list, null,
\* mapping without items, mapping whose items is no sequence) is skipped: no output
\* file is written for it and no error is raised for it.
C2_BadShapeSkipped ==
    \A g \in Collections :
        ~HasItemsShape(config.Collections.m[g]) =>
            /\ WritesOf(g) = {}
            /\ ~(err.op = "panicCollection" /\ err.name = g)

\* C3 as stated: an item without a string output_file (absent, not a string, or the
\* item is no mapping) is skipped: no output file is written for it and no error is
\* raised for it.
C3_BadItemSkipped ==
    \A g \in Collections :
        HasItemsShape(config.Collections.m[g]) =>
            \A k \in 1..Len(ItemsOf(g)) :
                ~HasOutputFile(ItemsOf(g)[k]) =>
                    /\ \A i \in WritesOf(g) : writes[i].idx # k
                    /\ ~(err.op = "panicItem" /\ err.name = g /\ itemIdx = k)

----------------------------------------------------------------------------
\* the page context or collection item a render was made for
OverrideOf(w) ==
    IF w.kind = "page" THEN config.Pages[w.name] ELSE ItemsOf(w.name)[w.idx]

\* C4 as stated: with base present and a mapping override, the render context has a
\* "base" key equal to the Configuration's base map and every key of the override
\* with the override's value.
C4_BaseAndOverride ==
    \A i \in 1..Len(writes) :
        LET o == OverrideOf(writes[i])
            ctx == writes[i].r.ctx
        IN (BasePresent /\ IsMap(o)) =>
              /\ IsMap(ctx)
              /\ "base" \in DOMAIN ctx.m
              /\ ctx.m["base"] = config.Base
              /\ \A k \in DOMAIN o.m : k \in DOMAIN ctx.m /\ ctx.m[k] = o.m[k]

\* C4 amended: with base present and a mapping override, the render context holds
\* exactly the keys of the override plus "base"; every key of the override has the
\* override's value, also the key "base"; "base" equals the Configuration's base map
\* only when the override has no key "base".
C4_OverrideWins ==
    \A i \in 1..Len(writes) :
        LET o == OverrideOf(writes[i])
            ctx == writes[i].r.ctx
        IN (BasePresent /\ IsMap(o)) =>
              /\ IsMap(ctx)
              /\ DOMAIN ctx.m = DOMAIN o.m \cup {"base"}
              /\ \A k \in DOMAIN o.m : ctx.m[k] = o.m[k]
              /\ "base" \notin DOMAIN o.m => ctx.m["base"] = config.Base

\* C4 witness: a render with base present whose override has its own "base" key, and
\* one whose override has none
C4_Witness ==
    /\ BasePresent
    /\ \E i \in 1..Len(writes) :
          IsMap(OverrideOf(writes[i])) /\ "base" \in DOMAIN OverrideOf(writes[i]).m
    /\ \E i \in 1..Len(writes) :
          IsMap(OverrideOf(writes[i])) /\ "base" \notin DOMAIN OverrideOf(writes[i]).m

----------------------------------------------------------------------------
\* C5 as stated: exit code 0 is reached only when every step succeeded; in particular
\* a failed copy of the assets directory is not reported as success.
C5_ExitZeroOnlyOnSuccess ==
    exitCode = 0 =>
        /\ err = NoErr
        /\ assets # "partial"
        /\ \A i \in 1..Len(writes) : writes[i].r.complete

----------------------------------------------------------------------------
IsPrefix(s, t) == Len(s) <= Len(t) /\ \A i \in 1..Len(s) : s[i] = t[i]

\* the functions that are the five components of the pipeline
Components ==
    {"downloadTemplateFromGitHub", "validateConfig", "copyAssets", "generatePages",
     "generateCollections"}

IsComponent(f) == f \in Components

\* the components in the order main called them
ComponentCalls == SelectSeq(calls, IsComponent)

\* C6 as stated: in full render mode the components run in the order Template
\* Fetcher, Config Validator, Asset Copier, Page Renderer, Collection Renderer.
C6_FetcherFirst ==
    FullRender =>
        IsPrefix(ComponentCalls,
                 <<"downloadTemplateFromGitHub", "validateConfig", "copyAssets",
                   "generatePages", "generateCollections">>)

\* C6 amended: in full render mode the components are called in the order Config
\* Validator, Template Fetcher, Asset Copier, Page Renderer, Collection Renderer, each
\* at most once and each returning before the next is called; a run that exits with
\* code 0 has run all five, exactly once each.
C6_ValidatorFirst ==
    FullRender =>
        /\ IsPrefix(ComponentCalls,
                    <<"validateConfig", "downloadTemplateFromGitHub", "copyAssets",
                      "generatePages", "generateCollections">>)
        /\ IsPrefix(returns, calls)
        /\ Len(calls) <= Len(returns) + 1
        /\ exitCode = 0 => (Len(ComponentCalls) = 5 /\ returns = calls)

\* C6 witness: a full render that exits with code 0 after rendering pages and items
C6_Witness ==
    /\ FullRender
    /\ exitCode = 0
    /\ \E i \in 1..Len(writes) : writes[i].kind = "page"
    /\ \E i \in 1..Len(writes) : writes[i].kind = "item"

----------------------------------------------------------------------------
\* the orders a range loop can visit the keys S in
Orders(S) ==
    { o \in [1..Cardinality(S) -> S] : \A i, j \in 1..Cardinality(S) : o[i] = o[j] => i = j }

RECURSIVE ItemJobs(_, _)
\* the renders of the items k.. of collection g, in sequence order
ItemJobs(g, k) ==
    IF k > Len(ItemsOf(g)) THEN << >>
    ELSE (IF HasOutputFile(ItemsOf(g)[k])
          THEN <<[file |-> ItemsOf(g)[k].m["output_file"].s,
                  r |-> Rendered(g, ItemsOf(g)[k], TRUE)]>>
          ELSE << >>) \o ItemJobs(g, k + 1)

RECURSIVE CollectionJobs(_, _)
\* the renders of the collections co[k..], in that order
CollectionJobs(co, k) ==
    IF k > Len(co) THEN << >>
    ELSE (IF HasItemsShape(config.Collections.m[co[k]]) THEN ItemJobs(co[k], 1) ELSE << >>)
         \o CollectionJobs(co, k + 1)

\* the renders of the pages, in the order po
PageJobs(po) ==
    [k \in 1..Len(po) |->
        [file |-> Html(po[k]), r |-> Rendered(po[k], config.Pages[po[k]], TRUE)]]

\* the content of file f after the renders jobs: the last one that targeted f
LastJob(jobs, f) ==
    jobs[CHOOSE k \in 1..Len(jobs) :
            jobs[k].file = f /\ \A j \in (k+1)..Len(jobs) : jobs[j].file # f].r

\* the output directory a successful run leaves when the pages are visited in the order
\* po and the collections in the order co
FinalOut(po, co) ==
    LET jobs == PageJobs(po) \o CollectionJobs(co, 1)
    IN [f \in {jobs[k].file : k \in 1..Len(jobs)} |-> LastJob(jobs, f)]

\* C7 as stated: the final content of the output directory of a successful run is the
\* same for every order in which the pages map and the collections map are iterated.
C7_OrderIndependent ==
    (FullRender /\ exitCode = 0) =>
        \A po \in Orders(Pages), co \in Orders(Collections) : out = FinalOut(po, co)

----------------------------------------------------------------------------
\* C8 as stated: at most one output handle is open at any time, and no handle is
\* left open once generatePages or generateCollections has returned.
C8_HandlePerRender ==
    /\ Len(handles) <= 1
    /\ pc \notin {"pagesLoop", "collLoop"} => handles = << >>

----------------------------------------------------------------------------
\* C9: when generatePages has returned without error, the output directory holds
\* exactly the files <p>.html of the declared pages, each rendered once, completely,
\* from <p>.html (with base.html first and as entry point when base is present).
C9_OneFilePerPage ==
    pc = "generateCollections" =>
        /\ Written = { Html(p) : p \in Pages }
        /\ Len(writes) = Cardinality(Pages)
        /\ \A i \in 1..Len(writes) : writes[i].kind = "page"
        /\ \A p \in Pages :
              /\ out[Html(p)].complete
              /\ out[Html(p)].parsed =
                     (IF config.Base = NullV THEN <<Html(p)>> ELSE <<"base.html", Html(p)>>)
              /\ out[Html(p)].entry = (IF config.Base = NullV THEN Html(p) ELSE "base.html")

\* C9 witness: generatePages returned after rendering two pages through base.html
C9_Witness ==
    /\ pc = "generateCollections"
    /\ Cardinality(Pages) = 2
    /\ config.Base # NullV

----------------------------------------------------------------------------
\* C10: with base absent every render gets the page context or item itself as its
\* context, parses the page's or collection's own template only and executes it, and
\* a parse error is about the page's or collection's own template (missing or
\* malformed), never about base.html.
C10_BaseAbsentIdentity ==
    config.Base = NullV =>
        /\ \A i \in 1..Len(writes) :
              /\ writes[i].r.ctx = OverrideOf(writes[i])
              /\ writes[i].r.parsed = <<Html(writes[i].name)>>
              /\ writes[i].r.entry = Html(writes[i].name)
        /\ err.op \in {"parsePage", "parseCollection"} => ~Usable(Html(err.name))

\* C10 witness: a successful run without base and without a usable base.html that
\* rendered a page and a collection item
C10_Witness ==
    /\ config.Base = NullV
    /\ ~Usable("base.html")
    /\ exitCode = 0
    /\ \E i \in 1..Len(writes) : writes[i].kind = "page"
    /\ \E i \in 1..Len(writes) : writes[i].kind = "item"

----------------------------------------------------------------------------
\* the context that holds the "base" key only
BaseOnly == MapV([k \in {"base"} |-> config.Base])

\* generateCollections has dealt with item k of collection g (rendered it, skipped it
\* or stopped on it)
ItemProcessed(g, k) ==
    /\ Len(calls) > 0 /\ calls[Len(calls)] = "generateCollections"
    /\ g \notin collTodo
    /\ curColl = g => (itemIdx > k \/ (itemIdx = k /\ err.op = "panicItem"))

\* C11 as stated: with base present, every override that is no mapping, used as a page
\* context or as a collection item, is rendered with a context that holds only "base":
\* every such render has that context, and every such item generateCollections has
\* dealt with has a render.
C11_NonMappingRendered ==
    config.Base # NullV =>
        /\ \A i \in 1..Len(writes) :
              ~IsMap(OverrideOf(writes[i])) => writes[i].r.ctx = BaseOnly
        /\ \A g \in Collections :
              HasItemsShape(config.Collections.m[g]) =>
                  \A k \in 1..Len(ItemsOf(g)) :
                      (~IsMap(ItemsOf(g)[k]) /\ ItemProcessed(g, k)) =>
                          \E i \in WritesOf(g) : writes[i].idx = k

----------------------------------------------------------------------------
\* generateCollections has been called
InCollections == Len(calls) > 0 /\ calls[Len(calls)] = "generateCollections"

\* the ParseFiles calls made for collection g
ParsesOf(g) ==
    { i \in 1..Len(parses) : parses[i].kind = "collection" /\ parses[i].name = g }

\* <templateDir>/<g>.html, and base.html when base is present, were downloaded
TemplatesOnDisk(g) ==
    Downloaded(Html(g)) /\ (config.Base # NullV => Downloaded("base.html"))

\* <templateDir>/<g>.html, and base.html when base is present, were downloaded with a
\* text that parses
TemplatesUsable(g) ==
    Usable(Html(g)) /\ (config.Base # NullV => Usable("base.html"))

\* C12: a collection that passes the shape check has <g>.html (and base.html when base
\* is present) parsed once, before any of its items is written; if a file is missing
\* (or its text does not parse) the run ends with an error naming g and nothing
\* written for g, whatever its items are; a collection that fails the shape check never
\* has its template parsed.
C12_TemplateBeforeItems ==
    /\ \A i \in 1..Len(parses) :
          parses[i].kind = "collection" =>
              /\ HasItemsShape(config.Collections.m[parses[i].name])
              /\ parses[i].files =
                     (IF config.Base = NullV THEN <<Html(parses[i].name)>>
                      ELSE <<"base.html", Html(parses[i].name)>>)
              /\ \A j \in WritesOf(parses[i].name) : j > parses[i].at
              /\ ParsesOf(parses[i].name) = {i}
    /\ InCollections =>
          \A g \in Collections \ collTodo :
              HasItemsShape(config.Collections.m[g]) =>
                  ParsesOf(g) # {} /\ TemplatesOnDisk(g) /\ TemplatesUsable(g)
    /\ err.op = "parseCollection" =>
          /\ exitCode = 1
          /\ HasItemsShape(config.Collections.m[err.name])
          /\ ~TemplatesUsable(err.name)
          /\ tmplFiles = fetched.files
          /\ ParsesOf(err.name) = {Len(parses)}
          /\ WritesOf(err.name) = {}

\* C12 witness: the run ends on the missing template of a collection none of whose
\* items would have been written
C12_Witness ==
    /\ pc = "exit"
    /\ err.op = "parseCollection"
    /\ ~TemplatesOnDisk(err.name)
    /\ \A k \in 1..Len(ItemsOf(err.name)) : ~HasOutputFile(ItemsOf(err.name)[k])

----------------------------------------------------------------------------
\* the last render that targeted file f
LastWrite(f) ==
    CHOOSE i \in 1..Len(writes) :
        writes[i].file = f /\ \A j \in (i+1)..Len(writes) : writes[j].file # f

\* C13: every output file holds the last render that targeted it; every page render
\* comes before every item render, so after a successful run a page file that an item
\* names as output_file holds an item's render, and of two items of one collection with
\* the same output_file the earlier one's render is not the one that stays.
C13_LastRenderWins ==
    /\ Written = { writes[i].file : i \in 1..Len(writes) }
    /\ \A f \in Written : out[f] = writes[LastWrite(f)].r
    /\ \A i, j \in 1..Len(writes) :
          (writes[i].kind = "item" /\ writes[j].kind = "page") => j < i
    /\ (FullRender /\ exitCode = 0) =>
          \A g \in Collections :
              HasItemsShape(config.Collections.m[g]) =>
                  \A k \in 1..Len(ItemsOf(g)) :
                      HasOutputFile(ItemsOf(g)[k]) =>
                          LET f == ItemsOf(g)[k].m["output_file"].s IN
                          /\ f \in Written
                          /\ writes[LastWrite(f)].kind = "item"
                          /\ \A l \in (k+1)..Len(ItemsOf(g)) :
                                (HasOutputFile(ItemsOf(g)[l])
                                   /\ ItemsOf(g)[l].m["output_file"].s = f)
                                    => ~(writes[LastWrite(f)].name = g
                                           /\ writes[LastWrite(f)].idx = k)

\* C13 witness: a successful run in which a page, then two items of one collection,
\* were rendered into the same file
C13_Witness ==
    /\ FullRender
    /\ exitCode = 0
    /\ \E i, j, l \in 1..Len(writes) :
          /\ i < j /\ j < l
          /\ writes[i].kind = "page"
          /\ writes[j].kind = "item" /\ writes[l].kind = "item"
          /\ writes[j].name = writes[l].name
          /\ writes[i].file = writes[j].file /\ writes[j].file = writes[l].file
          /\ out[writes[i].file] = writes[l].r
          /\ writes[l].r # writes[j].r
====
